---------------------------- MODULE Spec2Model ----------------------------
(***************************************************************************)
(* Model of KVSlib (src/kvslib/KVS.c): a hash table with a fixed number of *)
(* buckets, singly linked chains of reference counted entries, deferred    *)
(* removal and a one-slot cache of the entry found last.                   *)
(*                                                                         *)
(* Memory is modelled explicitly.  Entry structures live at the addresses  *)
(* EntryAddrs, payload buffers at CallerAddrs (memory of the caller) and   *)
(* HeapAddrs (buffers the library allocates).  ALLOCATE returns the lowest *)
(* free address or fails.  Every public function is one action.  The       *)
(* variable result holds what the last call returned and passed back, and  *)
(* held counts the references handed out and not yet given back.           *)
(***************************************************************************)
EXTENDS Integers, Sequences, FiniteSets, TLC

\* ------------------------------------------------------------------------
\* Bounds of the model
\* ------------------------------------------------------------------------

MaxKey == 2
MaxBuckets == 2
MaxEntries == 2
MaxRefs == 2
MaxLen == 1

\* the width in bits the model gives word_t, the type of ref_count
WordBits == 3

\* ------------------------------------------------------------------------
\* Status codes, enum kvs_status_t
\* ------------------------------------------------------------------------

KVS_STATUS_SUCCESS == "SUCCESS"
KVS_STATUS_INVALID_TABLE == "INVALID_TABLE"
KVS_STATUS_INVALID_KEY == "INVALID_KEY"
KVS_STATUS_INVALID_DATA == "INVALID_DATA"
KVS_STATUS_INVALID_SIZE == "INVALID_SIZE"
KVS_STATUS_KEY_NOT_UNIQUE == "KEY_NOT_UNIQUE"
KVS_STATUS_ALLOCATION_FAILED == "ALLOCATION_FAILED"
KVS_STATUS_INVALID_ENTRY == "INVALID_ENTRY"
KVS_STATUS_ENTRY_NOT_FOUND == "ENTRY_NOT_FOUND"
KVS_STATUS_ENTRY_PENDING_REMOVAL == "ENTRY_PENDING_REMOVAL"
KVS_STATUS_SIZE_OF_ENTRY_UNKNOWN == "SIZE_OF_ENTRY_UNKNOWN"

\* ------------------------------------------------------------------------
\* Addresses, keys and payloads
\* ------------------------------------------------------------------------

NULL == 0

\* kvs_key_t values the callers use; key 0 is the invalid key
Keys == 0..MaxKey

\* addresses at which ALLOCATE(sizeof(kvs_entry_s)) can place an entry
EntryAddrs == 1..MaxEntries

\* buffers owned by the caller, with their contents
CallerAddrs == {11, 12}

\* buffer 11 holds a string ending in a zero octet, buffer 12 does not
CallerData ==
    (11 :> [i \in 1..MaxLen |-> IF i = MaxLen THEN 0 ELSE 1]) @@
    (12 :> [i \in 1..MaxLen |-> IF i = 1 THEN 0 ELSE 1])

\* the buffer a caller stores for a key: 11 for odd keys, 12 for even keys
BufferOf(key) == IF key % 2 = 1 THEN 11 ELSE 12

\* the arguments <<value, size, null_terminated>> the callers store a key
\* with: no data; no size; data with its size; and, for the string of the
\* odd keys, the string without its size
StoreArgs(key) ==
    {<<NULL, MaxLen, FALSE>>, <<BufferOf(key), 0, FALSE>>,
     <<BufferOf(key), MaxLen, key % 2 = 1>>}
    \cup (IF key % 2 = 1 THEN {<<BufferOf(key), 0, TRUE>>} ELSE {})

\* addresses at which ALLOCATE(size) can place a payload buffer; one more
\* than entries, so that a copy can be retrieved while every entry is a copy
HeapAddrs == 21..(21 + MaxEntries)

Octets == {0, 1}

\* the contents of a memory block that is not allocated
Unallocated == <<-1>>

\* the slot of an entry structure that is not allocated
NoEntry == [key |-> 0]

\* value of a result field the call did not set
None == "none"

VARIABLES
    pc,                     \* "ready": the table exists; "disposed"; "fault"
    bucket_count,           \* kvs_table_s.bucket_count
    bucket,                 \* kvs_table_s.bucket[]: index -> entry address
    entry_count,            \* kvs_table_s.entry_count
    last_retrieved_entry,   \* kvs_table_s.last_retrieved_entry
    entry,                  \* entry address -> struct _kvs_entry_s or NoEntry
    mem,                    \* HeapAddrs -> octets of the buffer or Unallocated
    held,                   \* entry address -> references handed out and
                            \* not yet released (history of the callers)
    result                  \* what the last call returned

vars == <<pc, bucket_count, bucket, entry_count, last_retrieved_entry,
          entry, mem, held, result>>

table == <<bucket_count, bucket, entry_count, last_retrieved_entry>>

\* ------------------------------------------------------------------------
\* Memory
\* ------------------------------------------------------------------------

Allocated(e) == entry[e] # NoEntry

\* the address ALLOCATE(sizeof(kvs_entry_s)) returns when it succeeds: the
\* allocator is first-fit, it hands out the lowest free block (no block: no
\* address); a freed block is handed out again
FreeEntryAddrs ==
    {e \in EntryAddrs :
        /\ ~Allocated(e)
        /\ \A d \in EntryAddrs : ~Allocated(d) => e <= d}

\* the address ALLOCATE(size) returns for a payload, first-fit as well
FreeHeapAddrs ==
    {b \in HeapAddrs :
        /\ mem[b] = Unallocated
        /\ \A c \in HeapAddrs : mem[c] = Unallocated => b <= c}

\* the octets stored at a payload address
Contents(addr) == IF addr \in CallerAddrs THEN CallerData[addr] ELSE mem[addr]

\* the first n octets of s
Prefix(s, n) == SubSeq(s, 1, n)

\* ------------------------------------------------------------------------
\* Helpers on the chains
\* ------------------------------------------------------------------------

\* a variant for mutation testing: every key goes to the first bucket
BucketIndex_First(key) == 0

\* key % this_table->bucket_count
BucketIndex(key) == key % bucket_count

\* while ((this_entry->key != key) && (this_entry->next != NULL))
\*     this_entry = this_entry->next;
RECURSIVE ChainWalk(_, _, _)
ChainWalk(ent, e, key) ==
    IF ent[e].key # key /\ ent[e].next # NULL
    THEN ChainWalk(ent, ent[e].next, key)
    ELSE e

\* a variant for mutation testing: prev_entry stays at the head of the chain
ChainWalkPrev_Head(ent, prev, e, key) == prev

\* the same loop, returning prev_entry of kvs_remove_entry
RECURSIVE ChainWalkPrev(_, _, _, _)
ChainWalkPrev(ent, prev, e, key) ==
    IF ent[e].key # key /\ ent[e].next # NULL
    THEN ChainWalkPrev(ent, e, ent[e].next, key)
    ELSE prev

\* the entries linked from address e on, in chain order
RECURSIVE ChainFrom(_)
ChainFrom(e) ==
    IF e = NULL THEN <<>> ELSE <<e>> \o ChainFrom(entry[e].next)

Chain(i) == ChainFrom(bucket[i])

Range(s) == {s[i] : i \in DOMAIN s}

Linked == UNION {Range(Chain(i)) : i \in 0..(bucket_count - 1)}

\* the linked entries with the given key
EntriesFor(key) == {e \in Linked : entry[e].key = key}

\* ------------------------------------------------------------------------
\* Results of a call
\* ------------------------------------------------------------------------

\* op: the function called; key: its key argument; args: the arguments
\* <<value, size, null_terminated>> of a store; ret: the function result;
\* status: *status; size, nt: the out-parameters of kvs_get_entry; data:
\* the octets of a returned copy; freed: the addresses the call passed to
\* DEALLOCATE
Res(op, key, ret, status) ==
    [op |-> op, key |-> key, args |-> <<>>, ret |-> ret, status |-> status,
     size |-> None, nt |-> None, data |-> None, freed |-> {}]

\* A call that never returns: the process stops on a memory fault.  None of
\* its memory remains.
Fault(res) ==
    /\ pc' = "fault"
    /\ result' = res
    /\ bucket' = [i \in 0..(bucket_count - 1) |-> NULL]
    /\ entry_count' = 0
    /\ last_retrieved_entry' = NULL
    /\ entry' = [e \in EntryAddrs |-> NoEntry]
    /\ mem' = [b \in HeapAddrs |-> Unallocated]
    /\ held' = [e \in EntryAddrs |-> 0]
    /\ UNCHANGED bucket_count

\* the references handed out and not yet released, over all entries
RECURSIVE RefsOutTo(_)
RefsOutTo(n) ==
    IF n = 0 THEN 0
    ELSE (IF Allocated(n) THEN entry[n].ref_count - 1 ELSE 0)
         + RefsOutTo(n - 1)

\* word_t is an unsigned integer type: its values are 0..WordModulus-1 and
\* its arithmetic is modulo WordModulus
WordModulus == 2 ^ WordBits

\* the callers hold at most MaxRefs references at a time, or so many that
\* a reference count is within MaxRefs of the greatest value of word_t
MayTakeReference ==
    \/ RefsOutTo(MaxEntries) < MaxRefs
    \/ RefsOutTo(MaxEntries) >= WordModulus - 1 - MaxRefs

\* a call that returns without changing the table or any entry
Return(res) ==
    /\ result' = res
    /\ UNCHANGED <<pc, bucket_count, bucket, entry_count,
                   last_retrieved_entry, entry, mem, held>>

\* ------------------------------------------------------------------------
\* _kvs_calc_null_terminated_data_size( data )
\* ------------------------------------------------------------------------

\* The function scans from &data, the address of its own parameter, so it
\* counts the leading non-zero octets of the pointer passed in, not of the
\* data pointed to: the result depends on the address alone and can be any
\* count, 0 included.
kvs_calc_null_terminated_data_size(data) == 0..MaxLen

\* ------------------------------------------------------------------------
\* _kvs_new_entry_with_copy, _kvs_new_entry_with_ref
\* ------------------------------------------------------------------------

\* the offsets the copy loops visit: while (index <= size)
CopyOffsets(size) == 0..size

\* the octets of source that the copy loop stores inside a block of size
\* octets (offset i is element i + 1)
CopyOctets(source, size) ==
    [i \in 1..size |->
        IF (i - 1) \in CopyOffsets(size) THEN source[i] ELSE 0]

\* a variant for mutation testing: the new entry starts without a reference
NewEntry_NoReference(key, value, size, null_terminated) ==
    [key |-> key, value |-> value, size |-> size, next |-> NULL,
     ref_count |-> 0, null_terminated |-> null_terminated,
     marked_for_removal |-> FALSE]

\* the fields of a new entry
NewEntry(key, value, size, null_terminated) ==
    [key |-> key, value |-> value, size |-> size, next |-> NULL,
     ref_count |-> 1, null_terminated |-> null_terminated,
     marked_for_removal |-> FALSE]

\* a variant for mutation testing: the entry allocated is left behind
ValueAllocationFails_Leaks(e, rec, res) ==
    /\ entry' = [entry EXCEPT ![e] = rec]
    /\ result' = res
    /\ UNCHANGED <<pc, bucket_count, bucket, entry_count,
                   last_retrieved_entry, mem, held>>

\* _kvs_new_entry_with_copy when ALLOCATE(size) returns NULL: the entry
\* allocated at e and initialised with rec is deallocated again
ValueAllocationFails(e, rec, res) ==
    Return([res EXCEPT !.freed = {e}])

\* ------------------------------------------------------------------------
\* kvs_store_value, kvs_store_reference: the part they share
\* ------------------------------------------------------------------------

\* a variant for mutation testing: a calculated size of zero is accepted
SizeRejected_Never(size) == FALSE

\* the check of the calculated size: if (size == 0)
SizeRejected(size) == size = 0

\* the size the store works with: the size passed in, or the calculated one
StoreSizes(value, size) ==
    IF size = 0 THEN kvs_calc_null_terminated_data_size(value) ELSE {size}

\* variants for mutation testing: the check overlooks an entry that is
\* pending removal; the check is left out
KeyNotUnique_SkipsMarked(key) ==
    /\ bucket[BucketIndex(key)] # NULL
    /\ LET found == ChainWalk(entry, bucket[BucketIndex(key)], key)
       IN  entry[found].key = key /\ ~entry[found].marked_for_removal

KeyNotUnique_Never(key) == FALSE

\* the key is already taken in its bucket
KeyNotUnique(key) ==
    /\ bucket[BucketIndex(key)] # NULL
    /\ entry[ChainWalk(entry, bucket[BucketIndex(key)], key)].key = key

\* a variant for mutation testing: the entry counter is not updated
LinkEntry_NoCount(e, rec) ==
    LET index == BucketIndex(rec.key)
    IN  /\ IF bucket[index] = NULL
           THEN /\ bucket' = [bucket EXCEPT ![index] = e]
                /\ entry' = [entry EXCEPT ![e] = rec]
           ELSE /\ bucket' = bucket
                /\ entry' = [entry EXCEPT
                       ![ChainWalk(entry, bucket[index], rec.key)].next = e,
                       ![e] = rec]
        /\ entry_count' = entry_count
        /\ held' = [held EXCEPT ![e] = 0]

\* a variant for mutation testing: the new entry becomes the first of its
\* chain
LinkEntry_AtHead(e, rec) ==
    LET index == BucketIndex(rec.key)
    IN  /\ bucket' = [bucket EXCEPT ![index] = e]
        /\ entry' = [entry EXCEPT ![e] = [rec EXCEPT !.next = bucket[index]]]
        /\ entry_count' = entry_count + 1
        /\ held' = [held EXCEPT ![e] = 0]

\* link the new entry e: to the empty bucket, or to the final entry of
\* the chain; the entry counter is updated
LinkEntry(e, rec) ==
    LET index == BucketIndex(rec.key)
    IN  /\ IF bucket[index] = NULL
           THEN /\ bucket' = [bucket EXCEPT ![index] = e]
                /\ entry' = [entry EXCEPT ![e] = rec]
           ELSE /\ bucket' = bucket
                /\ entry' = [entry EXCEPT
                       ![ChainWalk(entry, bucket[index], rec.key)].next = e,
                       ![e] = rec]
        /\ entry_count' = entry_count + 1
        /\ held' = [held EXCEPT ![e] = 0]

\* variants for mutation testing: the key is not checked; a size of zero
\* is not checked
StoreArgStatus_NoKeyCheck(key, value, size, null_terminated) ==
    IF value = NULL THEN KVS_STATUS_INVALID_DATA
    ELSE IF size = 0 /\ null_terminated = FALSE THEN KVS_STATUS_INVALID_SIZE
    ELSE ""

StoreArgStatus_NoSizeCheck(key, value, size, null_terminated) ==
    IF key = 0 THEN KVS_STATUS_INVALID_KEY
    ELSE IF value = NULL THEN KVS_STATUS_INVALID_DATA
    ELSE ""

\* the checks of the arguments, in the order of the code; "" when they pass
StoreArgStatus(key, value, size, null_terminated) ==
    IF key = 0 THEN KVS_STATUS_INVALID_KEY
    ELSE IF value = NULL THEN KVS_STATUS_INVALID_DATA
    ELSE IF size = 0 /\ null_terminated = FALSE THEN KVS_STATUS_INVALID_SIZE
    ELSE ""

\* ------------------------------------------------------------------------
\* kvs_store_value( table, key, val, size, null_terminated, stat )
\* ------------------------------------------------------------------------

kvs_store_value(key, value, size, null_terminated) ==
    LET op == "kvs_store_value"
        bad == StoreArgStatus(key, value, size, null_terminated)
        Out(status) == [Res(op, key, None, status) EXCEPT
                           !.args = <<value, size, null_terminated>>]
    IN
    /\ pc = "ready"
    /\ IF bad # "" THEN Return(Out(bad))
       ELSE \E sz \in StoreSizes(value, size) :
          IF SizeRejected(sz)
          THEN Return(Out(KVS_STATUS_INVALID_SIZE))
          ELSE IF KeyNotUnique(key)
          THEN Return(Out(KVS_STATUS_KEY_NOT_UNIQUE))
          ELSE
             \* ALLOCATE(sizeof(kvs_entry_s)) returned NULL
             \/ Return(Out(KVS_STATUS_ALLOCATION_FAILED))
             \* ALLOCATE(size) returned NULL: the entry is deallocated
             \/ \E e \in FreeEntryAddrs :
                   ValueAllocationFails(e,
                       NewEntry(key, NULL, sz, null_terminated),
                       Out(KVS_STATUS_ALLOCATION_FAILED))
             \/ \E e \in FreeEntryAddrs, b \in FreeHeapAddrs :
                   /\ LinkEntry(e, NewEntry(key, b, sz, null_terminated))
                   /\ mem' = [mem EXCEPT
                                ![b] = CopyOctets(Contents(value), sz)]
                   /\ result' = Out(KVS_STATUS_SUCCESS)
                   /\ UNCHANGED <<pc, bucket_count, last_retrieved_entry>>

\* ------------------------------------------------------------------------
\* kvs_store_reference( tbl, key, val, siz, null_terminated, stat )
\* ------------------------------------------------------------------------

kvs_store_reference(key, value, size, null_terminated) ==
    LET op == "kvs_store_reference"
        bad == StoreArgStatus(key, value, size, null_terminated)
        Out(status) == [Res(op, key, None, status) EXCEPT
                           !.args = <<value, size, null_terminated>>]
    IN
    /\ pc = "ready"
    /\ IF bad # "" THEN Return(Out(bad))
       ELSE \E sz \in StoreSizes(value, size) :
          IF SizeRejected(sz)
          THEN Return(Out(KVS_STATUS_INVALID_SIZE))
          ELSE IF KeyNotUnique(key)
          THEN Return(Out(KVS_STATUS_KEY_NOT_UNIQUE))
          ELSE
             \* ALLOCATE(sizeof(kvs_entry_s)) returned NULL
             \/ Return(Out(KVS_STATUS_ALLOCATION_FAILED))
             \/ \E e \in FreeEntryAddrs :
                   /\ LinkEntry(e, NewEntry(key, value, sz, null_terminated))
                   /\ result' = Out(KVS_STATUS_SUCCESS)
                   /\ UNCHANGED <<pc, bucket_count, last_retrieved_entry,
                                  mem>>

\* ------------------------------------------------------------------------
\* _kvs_find_entry( table, key, status )
\* ------------------------------------------------------------------------

\* variants for mutation testing: the first entry of the bucket is taken
\* for the entry of the key; a miss empties the cache; a match in the chain
\* is not put in the cache
kvs_find_entry_FirstInBucket(key) ==
    IF /\ last_retrieved_entry # NULL
       /\ key = entry[last_retrieved_entry].key
    THEN [found |-> last_retrieved_entry, cache |-> last_retrieved_entry,
          status |-> KVS_STATUS_SUCCESS]
    ELSE IF bucket[BucketIndex(key)] = NULL
    THEN [found |-> NULL, cache |-> last_retrieved_entry,
          status |-> KVS_STATUS_ENTRY_NOT_FOUND]
    ELSE [found |-> bucket[BucketIndex(key)],
          cache |-> bucket[BucketIndex(key)],
          status |-> KVS_STATUS_SUCCESS]

kvs_find_entry_MissClears(key) ==
    IF /\ last_retrieved_entry # NULL
       /\ key = entry[last_retrieved_entry].key
    THEN [found |-> last_retrieved_entry, cache |-> last_retrieved_entry,
          status |-> KVS_STATUS_SUCCESS]
    ELSE IF bucket[BucketIndex(key)] = NULL
    THEN [found |-> NULL, cache |-> NULL,
          status |-> KVS_STATUS_ENTRY_NOT_FOUND]
    ELSE LET this_entry == ChainWalk(entry, bucket[BucketIndex(key)], key)
         IN  IF entry[this_entry].key = key
             THEN [found |-> this_entry, cache |-> this_entry,
                   status |-> KVS_STATUS_SUCCESS]
             ELSE [found |-> NULL, cache |-> NULL,
                   status |-> KVS_STATUS_ENTRY_NOT_FOUND]

kvs_find_entry_NoCaching(key) ==
    IF /\ last_retrieved_entry # NULL
       /\ key = entry[last_retrieved_entry].key
    THEN [found |-> last_retrieved_entry, cache |-> last_retrieved_entry,
          status |-> KVS_STATUS_SUCCESS]
    ELSE IF bucket[BucketIndex(key)] = NULL
    THEN [found |-> NULL, cache |-> last_retrieved_entry,
          status |-> KVS_STATUS_ENTRY_NOT_FOUND]
    ELSE LET this_entry == ChainWalk(entry, bucket[BucketIndex(key)], key)
         IN  IF entry[this_entry].key = key
             THEN [found |-> this_entry, cache |-> last_retrieved_entry,
                   status |-> KVS_STATUS_SUCCESS]
             ELSE [found |-> NULL, cache |-> last_retrieved_entry,
                   status |-> KVS_STATUS_ENTRY_NOT_FOUND]

\* found: the entry returned (NULL if none); cache: last_retrieved_entry
\* after the call; status: the status passed back
kvs_find_entry(key) ==
    IF /\ last_retrieved_entry # NULL
       /\ key = entry[last_retrieved_entry].key
    THEN [found |-> last_retrieved_entry, cache |-> last_retrieved_entry,
          status |-> KVS_STATUS_SUCCESS]
    ELSE IF bucket[BucketIndex(key)] = NULL
    THEN [found |-> NULL, cache |-> last_retrieved_entry,
          status |-> KVS_STATUS_ENTRY_NOT_FOUND]
    ELSE LET this_entry == ChainWalk(entry, bucket[BucketIndex(key)], key)
         IN  IF entry[this_entry].key = key
             THEN [found |-> this_entry, cache |-> this_entry,
                   status |-> KVS_STATUS_SUCCESS]
             ELSE [found |-> NULL, cache |-> last_retrieved_entry,
                   status |-> KVS_STATUS_ENTRY_NOT_FOUND]

\* a variant for mutation testing: the mark is ignored
PendingRemoval_Never(e) == FALSE

\* the check the retrievals make on the entry found:
\* if (this_entry->marked_for_removal)
PendingRemoval(e) == entry[e].marked_for_removal

\* a call that changes nothing but the cache
ReturnCached(cache, res) ==
    /\ last_retrieved_entry' = cache
    /\ result' = res
    /\ UNCHANGED <<pc, bucket_count, bucket, entry_count, entry, mem, held>>

\* ------------------------------------------------------------------------
\* kvs_entry_exists( table, key, status )
\* ------------------------------------------------------------------------

kvs_entry_exists(key) ==
    LET op == "kvs_entry_exists"
        f == kvs_find_entry(key)
    IN
    /\ pc = "ready"
    /\ IF f.found = NULL
       THEN ReturnCached(f.cache, Res(op, key, FALSE, f.status))
       ELSE IF PendingRemoval(f.found)
       THEN ReturnCached(f.cache,
                Res(op, key, FALSE, KVS_STATUS_ENTRY_PENDING_REMOVAL))
       ELSE ReturnCached(f.cache, Res(op, key, TRUE, f.status))

\* ------------------------------------------------------------------------
\* _kvs_retrieve_copy( entry, status )
\* ------------------------------------------------------------------------

\* The octets the copy loop can read for an entry.  The loop reads through
\* new_entry->value, and new_entry is a local that is never assigned: the
\* source address is indeterminate, so the octets read are any octets.
kvs_retrieve_copy_data(e) == [1..entry[e].size -> Octets]

\* a variant for mutation testing: a copy counts as a reference
kvs_retrieve_copy_Counting(e, cache, res) ==
    \E new_copy \in FreeHeapAddrs, octets \in kvs_retrieve_copy_data(e) :
        /\ entry' = [entry EXCEPT ![e].ref_count = @ + 1]
        /\ last_retrieved_entry' = cache
        /\ result' = [res EXCEPT !.ret = new_copy,
                                 !.status = KVS_STATUS_SUCCESS,
                                 !.data = octets]
        /\ UNCHANGED <<pc, bucket_count, bucket, entry_count, mem, held>>

\* the outcomes of _kvs_retrieve_copy for entry e, as results of call res:
\* the allocation fails, the read through the indeterminate pointer faults,
\* or a new buffer with the octets read is returned
kvs_retrieve_copy(e, cache, res) ==
    \/ ReturnCached(cache, [res EXCEPT !.ret = NULL,
                               !.status = KVS_STATUS_ALLOCATION_FAILED])
    \/ Fault([res EXCEPT !.ret = None, !.status = None])
    \/ \E new_copy \in FreeHeapAddrs, octets \in kvs_retrieve_copy_data(e) :
          ReturnCached(cache, [res EXCEPT !.ret = new_copy,
                                  !.status = KVS_STATUS_SUCCESS,
                                  !.data = octets])

\* ------------------------------------------------------------------------
\* kvs_get_entry(table, copy, key, size, null_terminated, status)
\* ------------------------------------------------------------------------

\* a variant for mutation testing: the retrieval counts twice
GetEntryIncrement_Twice(ref_count) == ref_count + 2

\* this_entry->ref_count++ of the retrieval by reference
GetEntryIncrement(ref_count) == (ref_count + 1) % WordModulus

kvs_get_entry(copy, key) ==
    LET op == IF copy THEN "kvs_get_entry_copy" ELSE "kvs_get_entry_ref"
        f == kvs_find_entry(key)
        this_entry == f.found
    IN
    /\ pc = "ready"
    /\ IF this_entry = NULL
       THEN ReturnCached(f.cache,
                Res(op, key, NULL, KVS_STATUS_ENTRY_NOT_FOUND))
       ELSE IF PendingRemoval(this_entry)
       THEN ReturnCached(f.cache,
                Res(op, key, NULL, KVS_STATUS_ENTRY_PENDING_REMOVAL))
       ELSE IF copy
       THEN IF entry[this_entry].size = 0
            THEN ReturnCached(f.cache,
                     Res(op, key, NULL, KVS_STATUS_SIZE_OF_ENTRY_UNKNOWN))
            ELSE kvs_retrieve_copy(this_entry, f.cache,
                     [Res(op, key, NULL, f.status) EXCEPT
                         !.size = entry[this_entry].size,
                         !.nt = entry[this_entry].null_terminated])
       ELSE /\ MayTakeReference
            /\ entry' = [entry EXCEPT ![this_entry].ref_count =
                               GetEntryIncrement(@)]
            /\ held' = [held EXCEPT ![this_entry] = @ + 1]
            /\ last_retrieved_entry' = f.cache
            /\ result' = [Res(op, key, entry[this_entry].value,
                              KVS_STATUS_SUCCESS) EXCEPT
                             !.size = entry[this_entry].size,
                             !.nt = entry[this_entry].null_terminated]
            /\ UNCHANGED <<pc, bucket_count, bucket, entry_count, mem>>

\* ------------------------------------------------------------------------
\* kvs_value_for_key( table, key, status )
\* ------------------------------------------------------------------------

kvs_value_for_key(key) ==
    LET op == "kvs_value_for_key"
        f == kvs_find_entry(key)
        this_entry == f.found
    IN
    /\ pc = "ready"
    /\ IF this_entry = NULL
       THEN ReturnCached(f.cache,
                Res(op, key, NULL, KVS_STATUS_ENTRY_NOT_FOUND))
       ELSE IF PendingRemoval(this_entry)
       THEN ReturnCached(f.cache,
                Res(op, key, NULL, KVS_STATUS_ENTRY_PENDING_REMOVAL))
       ELSE IF entry[this_entry].size = 0
       THEN ReturnCached(f.cache,
                Res(op, key, NULL, KVS_STATUS_SIZE_OF_ENTRY_UNKNOWN))
       ELSE kvs_retrieve_copy(this_entry, f.cache,
                Res(op, key, NULL, f.status))

\* ------------------------------------------------------------------------
\* kvs_reference_for_key( table, key, status )
\* ------------------------------------------------------------------------

\* variants for mutation testing: the retrieval does not count; it counts
\* twice
ReferenceForKeyIncrement_None(ref_count) == ref_count

ReferenceForKeyIncrement_Twice(ref_count) == ref_count + 2

\* this_entry->ref_count++
ReferenceForKeyIncrement(ref_count) == (ref_count + 1) % WordModulus

kvs_reference_for_key(key) ==
    LET op == "kvs_reference_for_key"
        f == kvs_find_entry(key)
        this_entry == f.found
    IN
    /\ pc = "ready"
    /\ IF this_entry = NULL
       THEN ReturnCached(f.cache,
                Res(op, key, NULL, KVS_STATUS_ENTRY_NOT_FOUND))
       ELSE IF PendingRemoval(this_entry)
       THEN ReturnCached(f.cache,
                Res(op, key, NULL, KVS_STATUS_ENTRY_PENDING_REMOVAL))
       ELSE /\ MayTakeReference
            /\ entry' = [entry EXCEPT ![this_entry].ref_count =
                               ReferenceForKeyIncrement(@)]
            /\ held' = [held EXCEPT ![this_entry] = @ + 1]
            /\ last_retrieved_entry' = f.cache
            /\ result' = Res(op, key, entry[this_entry].value,
                             KVS_STATUS_SUCCESS)
            /\ UNCHANGED <<pc, bucket_count, bucket, entry_count, mem>>

\* ------------------------------------------------------------------------
\* kvs_size_for_key, kvs_data_for_key_is_null_terminated,
\* kvs_reference_count_for_key
\* ------------------------------------------------------------------------

kvs_size_for_key(key) ==
    LET f == kvs_find_entry(key)
        ret == IF f.found # NULL THEN entry[f.found].size ELSE 0
    IN  /\ pc = "ready"
        /\ ReturnCached(f.cache, Res("kvs_size_for_key", key, ret, f.status))

kvs_data_for_key_is_null_terminated(key) ==
    LET f == kvs_find_entry(key)
        ret == IF f.found # NULL
               THEN entry[f.found].null_terminated ELSE FALSE
    IN  /\ pc = "ready"
        /\ ReturnCached(f.cache,
               Res("kvs_data_for_key_is_null_terminated", key, ret,
                   f.status))

\* a variant for mutation testing: an entry pending removal counts as none
kvs_reference_count_for_key_Filtering(key) ==
    LET f == kvs_find_entry(key)
        ret == IF f.found # NULL /\ ~PendingRemoval(f.found)
               THEN entry[f.found].ref_count ELSE 0
    IN  /\ pc = "ready"
        /\ ReturnCached(f.cache,
               Res("kvs_reference_count_for_key", key, ret, f.status))

kvs_reference_count_for_key(key) ==
    LET f == kvs_find_entry(key)
        ret == IF f.found # NULL THEN entry[f.found].ref_count ELSE 0
    IN  /\ pc = "ready"
        /\ ReturnCached(f.cache,
               Res("kvs_reference_count_for_key", key, ret, f.status))

\* ------------------------------------------------------------------------
\* _kvs_dispose_entry( entry, status )
\* ------------------------------------------------------------------------

\* The entries ent and buffers m after entry e is disposed of, the status
\* passed back, and the addresses passed to DEALLOCATE.  entry->value is
\* deallocated whenever it is not NULL, whoever owns it.
kvs_dispose_entry(ent, m, e, status) ==
    LET value == ent[e].value
    IN  [entry |-> [ent EXCEPT ![e] = NoEntry],
         mem |-> IF value \in HeapAddrs
                 THEN [m EXCEPT ![value] = Unallocated] ELSE m,
         status |-> IF value # NULL THEN KVS_STATUS_SUCCESS ELSE status,
         freed |-> IF value # NULL THEN {value, e} ELSE {e}]

\* ------------------------------------------------------------------------
\* kvs_remove_entry(table, key, status)
\* ------------------------------------------------------------------------

\* variants for mutation testing: removal at once with one reference
\* still out; no removal at once
RemovableAt_Two(ref_count) == ref_count <= 2

RemovableAt_Never(ref_count) == ref_count <= 0

\* the reference count up to which kvs_remove_entry removes at once:
\* if (this_entry->ref_count <= 1)
RemovableAt(ref_count) == ref_count <= 1

\* a variant for mutation testing: the cache keeps the entry removed
CacheAfterRemoval_Kept(cache, this_entry) == cache

\* if (this_table->last_retrieved_entry == this_entry)
\*     this_table->last_retrieved_entry = NULL;
CacheAfterRemoval(cache, this_entry) ==
    IF cache = this_entry THEN NULL ELSE cache

\* The function, applied to the table state s = [bucket, entry, cache,
\* count, mem] with the status variable holding status: the state after
\* the call, the status passed back and the addresses deallocated.
RemoveEntry(s, key, status) ==
    LET index == key % bucket_count
        unchanged == [s |-> s, status |-> status, freed |-> {}]
    IN
    IF key = 0
    THEN [unchanged EXCEPT !.status = KVS_STATUS_INVALID_KEY]
    ELSE IF s.bucket[index] = NULL
    THEN [unchanged EXCEPT !.status = KVS_STATUS_ENTRY_NOT_FOUND]
    ELSE
      LET this_entry == ChainWalk(s.entry, s.bucket[index], key)
          prev_entry == ChainWalkPrev(s.entry, s.bucket[index],
                                      s.bucket[index], key)
      IN
      IF s.entry[this_entry].key # key
      THEN [unchanged EXCEPT !.status = KVS_STATUS_ENTRY_NOT_FOUND]
      ELSE IF RemovableAt(s.entry[this_entry].ref_count)
      THEN LET first == s.bucket[index] = this_entry
               next == s.entry[this_entry].next
               unlinked == IF first THEN s.entry
                           ELSE [s.entry EXCEPT ![prev_entry].next = next]
               d == kvs_dispose_entry(unlinked, s.mem, this_entry, status)
           IN  [s |-> [bucket |-> IF first
                                  THEN [s.bucket EXCEPT ![index] = next]
                                  ELSE s.bucket,
                       entry |-> d.entry,
                       cache |-> CacheAfterRemoval(s.cache, this_entry),
                       count |-> s.count - 1,
                       mem |-> d.mem],
                status |-> d.status,
                freed |-> d.freed]
      ELSE [s |-> [s EXCEPT !.entry[this_entry].marked_for_removal = TRUE],
            status |-> KVS_STATUS_SUCCESS,
            freed |-> {}]

\* the table state as RemoveEntry takes it
TableState ==
    [bucket |-> bucket, entry |-> entry, cache |-> last_retrieved_entry,
     count |-> entry_count, mem |-> mem]

\* the variables take the values of table state s
SetTableState(s) ==
    /\ bucket' = s.bucket
    /\ entry' = s.entry
    /\ last_retrieved_entry' = s.cache
    /\ entry_count' = s.count
    /\ mem' = s.mem

kvs_remove_entry(key) ==
    LET r == RemoveEntry(TableState, key, None)
    IN  /\ pc = "ready"
        /\ SetTableState(r.s)
        /\ result' = [Res("kvs_remove_entry", key, None, r.status)
                         EXCEPT !.freed = r.freed]
        /\ UNCHANGED <<pc, bucket_count, held>>

\* ------------------------------------------------------------------------
\* kvs_release_entry( table, key, status )
\* ------------------------------------------------------------------------

\* a variant for mutation testing: the release decrements at 1 as well
ReleaseDecrements_AtOne(ref_count) == ref_count >= 1

\* whether the release decrements: if (this_entry->ref_count > 1)
ReleaseDecrements(ref_count) == ref_count > 1

\* a variant for mutation testing: the release never removes
ReleaseRemoves_Never(ref_count, marked_for_removal) == FALSE

\* whether a release that found ref_count (before the decrement) on an
\* entry with the given mark goes on to call kvs_remove_entry
ReleaseRemoves(ref_count, marked_for_removal) ==
    ref_count - 1 = 1 /\ marked_for_removal

kvs_release_entry(key) ==
    LET op == "kvs_release_entry"
        f == kvs_find_entry(key)
        this_entry == f.found
    IN
    /\ pc = "ready"
    /\ IF this_entry = NULL
       THEN ReturnCached(f.cache, Res(op, key, None, f.status))
       ELSE IF ~ReleaseDecrements(entry[this_entry].ref_count)
       THEN ReturnCached(f.cache, Res(op, key, None, f.status))
       ELSE LET released ==
                    [TableState EXCEPT
                        !.cache = f.cache,
                        !.entry[this_entry].ref_count = @ - 1]
                r == IF ReleaseRemoves(entry[this_entry].ref_count,
                            entry[this_entry].marked_for_removal)
                     THEN RemoveEntry(released, key, f.status)
                     ELSE [s |-> released, status |-> f.status,
                           freed |-> {}]
            IN  /\ SetTableState(r.s)
                /\ held' = [held EXCEPT ![this_entry] =
                                IF @ > 0 THEN @ - 1 ELSE 0]
                /\ result' = [Res(op, key, None, r.status)
                                 EXCEPT !.freed = r.freed]
                /\ UNCHANGED <<pc, bucket_count>>

\* ------------------------------------------------------------------------
\* kvs_dispose_table( table, status )
\* ------------------------------------------------------------------------

\* the bucket indices the loop visits:
\* for (index = 0; index < this_table->entry_count; index++)
DisposeIndices == 0..(entry_count - 1)

\* the entries in the chains of the visited buckets that exist
DisposedEntries ==
    UNION {Range(Chain(i)) :
              i \in DisposeIndices \cap (0..(bucket_count - 1))}

kvs_dispose_table ==
    /\ pc = "ready"
       \* a visited index past the bucket array reads memory that is not
       \* part of the table: the pointer read there is indeterminate
    /\ \/ pc' = "disposed"
       \/ /\ \E i \in DisposeIndices : i >= bucket_count
          /\ pc' = "fault"
    /\ entry' = [e \in EntryAddrs |->
                    IF e \in DisposedEntries THEN NoEntry ELSE entry[e]]
    /\ mem' = [b \in HeapAddrs |->
                  IF \E e \in DisposedEntries : entry[e].value = b
                  THEN Unallocated ELSE mem[b]]
       \* DEALLOCATE(this_table): the fields of the table are gone
    /\ bucket' = [i \in 0..(bucket_count - 1) |-> NULL]
    /\ entry_count' = 0
    /\ last_retrieved_entry' = NULL
    /\ held' = [e \in EntryAddrs |-> 0]
    /\ result' = [Res("kvs_dispose_table", 0, None, KVS_STATUS_SUCCESS)
                     EXCEPT !.freed = DisposedEntries \cup
                         {entry[e].value : e \in DisposedEntries}]
    /\ UNCHANGED <<bucket_count>>

\* ------------------------------------------------------------------------
\* kvs_new_table( size, status ) and the specification
\* ------------------------------------------------------------------------

\* the state after kvs_new_table(size) for a size in 1..MaxBuckets
Init ==
    /\ pc = "ready"
    /\ bucket_count \in 1..MaxBuckets
    /\ bucket = [i \in 0..(bucket_count - 1) |-> NULL]
    /\ entry_count = 0
    /\ last_retrieved_entry = NULL
    /\ entry = [e \in EntryAddrs |-> NoEntry]
    /\ mem = [b \in HeapAddrs |-> Unallocated]
    /\ held = [e \in EntryAddrs |-> 0]
    /\ result = Res("kvs_new_table", 0, None, KVS_STATUS_SUCCESS)

StoreValue ==
    \E key \in Keys : \E a \in StoreArgs(key) : kvs_store_value(key, a[1], a[2], a[3])

StoreReference ==
    \E key \in Keys : \E a \in StoreArgs(key) :
        kvs_store_reference(key, a[1], a[2], a[3])

EntryExists == \E key \in Keys : kvs_entry_exists(key)

GetEntry == \E copy \in BOOLEAN, key \in Keys : kvs_get_entry(copy, key)

ValueForKey == \E key \in Keys : kvs_value_for_key(key)

ReferenceForKey == \E key \in Keys : kvs_reference_for_key(key)

SizeForKey == \E key \in Keys : kvs_size_for_key(key)

DataForKeyIsNullTerminated ==
    \E key \in Keys : kvs_data_for_key_is_null_terminated(key)

ReferenceCountForKey == \E key \in Keys : kvs_reference_count_for_key(key)

ReleaseEntry == \E key \in Keys : kvs_release_entry(key)

RemoveEntryCall == \E key \in Keys : kvs_remove_entry(key)

DisposeTable == kvs_dispose_table

Next ==
    \/ StoreValue
    \/ StoreReference
    \/ EntryExists
    \/ GetEntry
    \/ ValueForKey
    \/ ReferenceForKey
    \/ SizeForKey
    \/ DataForKeyIsNullTerminated
    \/ ReferenceCountForKey
    \/ ReleaseEntry
    \/ RemoveEntryCall
    \/ DisposeTable

Spec == Init /\ [][Next]_vars

\* The table after kvs_new_table, one kvs_store_reference for key 1 and
\* WordModulus - 2 calls of kvs_get_entry in reference mode for that key:
\* the reference count of the entry is the greatest value of word_t.
InitWord ==
    /\ pc = "ready"
    /\ bucket_count \in 1..MaxBuckets
    /\ bucket = [i \in 0..(bucket_count - 1) |->
                    IF i = 1 % bucket_count THEN 1 ELSE NULL]
    /\ entry_count = 1
    /\ last_retrieved_entry = 1
    /\ entry = [e \in EntryAddrs |->
                   IF e = 1
                   THEN [NewEntry(1, BufferOf(1), MaxLen, FALSE)
                            EXCEPT !.ref_count = WordModulus - 1]
                   ELSE NoEntry]
    /\ mem = [b \in HeapAddrs |-> Unallocated]
    /\ held = [e \in EntryAddrs |-> IF e = 1 THEN WordModulus - 2 ELSE 0]
    /\ result = [Res("kvs_get_entry_ref", 1, BufferOf(1), KVS_STATUS_SUCCESS)
                    EXCEPT !.size = MaxLen, !.nt = FALSE]

\* the calls that read or change a reference count
NextWord ==
    \/ GetEntry
    \/ ReferenceForKey
    \/ ReferenceCountForKey
    \/ ReleaseEntry
    \/ RemoveEntryCall

SpecWord == InitWord /\ [][NextWord]_vars


\* ------------------------------------------------------------------------
\* Properties
\* ------------------------------------------------------------------------

\* Every call records itself in result, so in a step from a state where the
\* table is in use result' tells which call the step is, and for which key.
Called(op) == pc = "ready" /\ result'.op = op

Stores == {"kvs_store_value", "kvs_store_reference"}

Retrievals ==
    {"kvs_entry_exists", "kvs_get_entry_copy", "kvs_get_entry_ref",
     "kvs_value_for_key", "kvs_reference_for_key"}

\* the entry is allocated and marked for removal
Pending(e) == Allocated(e) /\ entry[e].marked_for_removal

\* C1: keys are unique within a table: at most one linked entry has a given
\* key, whether that entry is live or pending removal.
C1_KeysUnique ==
    \A e1, e2 \in Linked : entry[e1].key = entry[e2].key => e1 = e2

\* a store for the key of an entry pending removal was refused while the
\* table holds two entries
C1_Witness ==
    /\ result.op \in Stores
    /\ result.status = KVS_STATUS_KEY_NOT_UNIQUE
    /\ Cardinality(Linked) = 2
    /\ \E e \in EntriesFor(result.key) : entry[e].marked_for_removal

C3_PendingNotRetrievable ==
    [][(\E op \in Retrievals : Called(op))
       => \A e \in EntriesFor(result'.key) :
             entry[e].marked_for_removal
             => /\ result'.status = KVS_STATUS_ENTRY_PENDING_REMOVAL
                /\ pc' = "ready"
                /\ IF result'.op = "kvs_entry_exists"
                   THEN result'.ret = FALSE
                   ELSE result'.ret = NULL
                /\ entry' = entry
                /\ e \in Linked'
      ]_vars

\* kvs_get_entry by reference was refused for an entry pending removal
C3_Witness ==
    /\ result.op = "kvs_get_entry_ref"
    /\ result.ret = NULL
    /\ result.status = KVS_STATUS_ENTRY_PENDING_REMOVAL
    /\ \E e \in EntriesFor(result.key) : entry[e].marked_for_removal

C5_ImmediateRemoval ==
    [][/\ Called("kvs_entry_exists")
          => (EntriesFor(result'.key) = {} => result'.ret = FALSE)
       /\ Called("kvs_remove_entry")
          => \A e \in EntriesFor(result'.key) :
                entry[e].ref_count = 1
                => /\ result'.status = KVS_STATUS_SUCCESS
                   /\ ~Allocated(e)'
                   /\ e \in result'.freed
                   /\ Linked' = Linked \ {e}
                   /\ entry_count' = entry_count - 1
      ]_vars

\* kvs_remove_entry has freed the entry of its key and left another linked
C5_Witness ==
    /\ result.op = "kvs_remove_entry"
    /\ result.status = KVS_STATUS_SUCCESS
    /\ result.freed # {}
    /\ EntriesFor(result.key) = {}
    /\ Linked # {}

\* C6: kvs_release_entry never lowers a reference count below 1; on an
\* entry with count 1 it changes no entry, reports no error and leaves the
\* entry retrievable; on an entry with count above 1 that is not pending
\* removal it lowers the count by one and unlinks nothing.
C6_ReleaseFloor ==
    [][Called("kvs_release_entry")
       => /\ \A d \in EntryAddrs :
                Allocated(d)' => entry'[d].ref_count >= 1
          /\ \A e \in EntriesFor(result'.key) :
                /\ entry[e].ref_count = 1
                      => /\ result'.status = KVS_STATUS_SUCCESS
                         /\ entry' = entry
                         /\ ~entry'[e].marked_for_removal
                         /\ bucket' = bucket
                         /\ entry_count' = entry_count
                         /\ result'.freed = {}
                /\ (entry[e].ref_count > 1 /\ ~entry[e].marked_for_removal)
                      => /\ entry' = [entry EXCEPT ![e].ref_count = @ - 1]
                         /\ bucket' = bucket
                         /\ entry_count' = entry_count
                         /\ result'.freed = {}
      ]_vars

\* a release was called for an entry with no reference out, which is still
\* linked, live, with count 1
C6_Witness ==
    /\ result.op = "kvs_release_entry"
    /\ result.status = KVS_STATUS_SUCCESS
    /\ result.freed = {}
    /\ Cardinality(Linked) = 2
    /\ \E e \in EntriesFor(result.key) :
          entry[e].ref_count = 1 /\ ~entry[e].marked_for_removal

\* C7: after kvs_store_value(k, buffer, N) succeeds, a retrieval by copy of
\* k (kvs_value_for_key, or kvs_get_entry in copy mode) that returns a
\* buffer returns the N octets stored, with status success.
C7_CopyRoundTrip ==
    [][(/\ result.op = "kvs_store_value"
        /\ result.status = KVS_STATUS_SUCCESS
        /\ result.args[2] > 0
        /\ (Called("kvs_value_for_key") \/ Called("kvs_get_entry_copy"))
        /\ result'.key = result.key
        /\ pc' = "ready"
        /\ result'.ret # NULL)
       => /\ result'.status = KVS_STATUS_SUCCESS
          /\ result'.data =
                Prefix(CallerData[result.args[1]], result.args[2])
      ]_vars

\* C8 as stated: a store call for a key that already has an entry reports
\* key-not-unique and leaves the table exactly as before.
C8_DuplicateStoreKeyNotUnique ==
    [][((\E op \in Stores : Called(op)) /\ EntriesFor(result'.key) # {})
       => /\ result'.status = KVS_STATUS_KEY_NOT_UNIQUE
          /\ UNCHANGED <<bucket_count, bucket, entry_count,
                         last_retrieved_entry, entry, mem>>
      ]_vars

\* the status of a store call with the given arguments for a key that has
\* an entry
DuplicateStoreStatus(value, size, null_terminated) ==
    IF value = NULL THEN {KVS_STATUS_INVALID_DATA}
    ELSE IF size = 0 /\ ~null_terminated THEN {KVS_STATUS_INVALID_SIZE}
    ELSE IF size = 0
    THEN {KVS_STATUS_INVALID_SIZE, KVS_STATUS_KEY_NOT_UNIQUE}
    ELSE {KVS_STATUS_KEY_NOT_UNIQUE}

\* C8, amended: a store call for a key that already has an entry creates no
\* entry and leaves the table exactly as before; it reports key-not-unique
\* when its payload is not NULL and its size is not zero, invalid-data when
\* the payload is NULL, invalid-size when the size is zero and the data is
\* not null-terminated, and invalid-size or key-not-unique when the size is
\* zero and the data is null-terminated.
C8_DuplicateStoreRejected ==
    [][((\E op \in Stores : Called(op)) /\ EntriesFor(result'.key) # {})
       => /\ result'.status \in
                DuplicateStoreStatus(result'.args[1], result'.args[2],
                                     result'.args[3])
          /\ result'.freed = {}
          /\ UNCHANGED <<bucket_count, bucket, entry_count,
                         last_retrieved_entry, entry, mem>>
      ]_vars

\* a store with a payload and a size was refused for the key of a live entry
C8_Witness ==
    /\ result.op \in Stores
    /\ result.status = KVS_STATUS_KEY_NOT_UNIQUE
    /\ result.args[1] # NULL
    /\ result.args[2] > 0
    /\ \E e \in EntriesFor(result.key) : ~entry[e].marked_for_removal

TableUnchanged ==
    UNCHANGED <<bucket_count, bucket, entry_count, last_retrieved_entry,
                entry, mem>>

CopyRetrievals == {"kvs_value_for_key", "kvs_get_entry_copy"}

\* C11: after kvs_store_reference(k, v, N, false) succeeds, a following
\* kvs_reference_for_key(k) returns v itself and leaves the reference count
\* of the entry at 2, which is what kvs_reference_count_for_key(k) returns.
C11_StoreReferenceThenReference ==
    [][/\ (/\ result.op = "kvs_store_reference"
           /\ result.status = KVS_STATUS_SUCCESS
           /\ result.args[3] = FALSE
           /\ Called("kvs_reference_for_key")
           /\ result'.key = result.key)
          => /\ result'.status = KVS_STATUS_SUCCESS
             /\ result'.ret = result.args[1]
             /\ EntriesFor(result.key) # {}
             /\ \A e \in EntriesFor(result.key) : entry'[e].ref_count = 2
       /\ Called("kvs_reference_count_for_key")
          => \A e \in EntriesFor(result'.key) :
                result'.ret = entry[e].ref_count
      ]_vars

\* kvs_reference_count_for_key returned 2 for an entry that aliases a
\* buffer of the caller
C11_Witness ==
    /\ result.op = "kvs_reference_count_for_key"
    /\ result.ret = 2
    /\ \E e \in EntriesFor(result.key) :
          /\ entry[e].value \in CallerAddrs
          /\ ~entry[e].null_terminated
          /\ held[e] = 1

C13_CopyKeepsCounts ==
    [][((\E op \in CopyRetrievals : Called(op)) /\ pc' = "ready")
       => /\ entry' = entry
          /\ held' = held
      ]_vars

\* a copy of an entry with a reference out was returned
C13_Witness ==
    /\ result.op \in CopyRetrievals
    /\ result.status = KVS_STATUS_SUCCESS
    /\ result.ret # NULL
    /\ \E e \in EntriesFor(result.key) : entry[e].ref_count = 2

\* C14: no call deallocates a buffer of the caller: when an entry stored by
\* reference is destroyed only the entry structure is deallocated.
C14_CallerPayloadNotFreed == result.freed \cap CallerAddrs = {}

\* C15: kvs_dispose_table visits the buckets 0 .. bucket_count - 1 and no
\* other memory, and deallocates every entry linked in a chain.
C15_DisposeFreesAllEntries ==
    [][Called("kvs_dispose_table")
       => /\ pc' = "disposed"
          /\ Linked \subseteq result'.freed
      ]_vars

\* C16: the lookup cache is empty or refers to an entry that is allocated
\* and linked in a chain; an entry that is deallocated is not in the cache.
C16_CacheLive ==
    last_retrieved_entry # NULL
    => /\ Allocated(last_retrieved_entry)
       /\ last_retrieved_entry \in Linked

\* a release has found its entry (which puts it in the cache) and
\* deallocated it; the cache is empty and the table holds another entry
C16_Witness ==
    /\ result.op = "kvs_release_entry"
    /\ result.freed # {}
    /\ last_retrieved_entry = NULL
    /\ Linked # {}

\* C17 as stated: a store or a retrieval by copy that reports
\* allocation-failed leaves the chains, entry_count, the cache, the entries
\* and the buffers as before.
C17_AllocationFailureChangesNothing ==
    [][((\E op \in Stores \cup CopyRetrievals : Called(op))
        /\ result'.status = KVS_STATUS_ALLOCATION_FAILED)
       => TableUnchanged
      ]_vars

\* C17, amended: a store or a retrieval by copy whose allocation fails
\* reports allocation-failed, returns NULL if it returns a value, and leaves
\* the chains, entry_count, the entries and the buffers as before, with no
\* entry or buffer left allocated; a store leaves the cache as before, a
\* retrieval by copy leaves in the cache the entry it looked up.
C17_AllocationFailureRollsBack ==
    [][((\E op \in Stores \cup CopyRetrievals : Called(op))
        /\ result'.status = KVS_STATUS_ALLOCATION_FAILED)
       => /\ UNCHANGED <<bucket_count, bucket, entry_count, entry, mem>>
          /\ IF result'.op \in Stores
             THEN last_retrieved_entry' = last_retrieved_entry
             ELSE /\ result'.ret = NULL
                  /\ last_retrieved_entry' \in EntriesFor(result'.key)
      ]_vars

\* kvs_store_value gave up after the allocation of the entry, in a table
\* that holds an entry
C17_Witness ==
    /\ result.op = "kvs_store_value"
    /\ result.status = KVS_STATUS_ALLOCATION_FAILED
    /\ result.freed # {}
    /\ Linked # {}

\* C18: no entry with key 0 is ever linked; a store and kvs_remove_entry
\* called with key 0 report invalid-key and change nothing.
C18_KeyZeroRejected ==
    /\ [](\A e \in Linked : entry[e].key # 0)
    /\ [][((\E op \in Stores \cup {"kvs_remove_entry"} : Called(op))
           /\ result'.key = 0)
          => /\ result'.status = KVS_STATUS_INVALID_KEY
             /\ result'.freed = {}
             /\ held' = held
             /\ TableUnchanged
         ]_vars

\* kvs_remove_entry was called with key 0 on a table that holds an entry
C18_Witness ==
    /\ result.op = "kvs_remove_entry"
    /\ result.key = 0
    /\ result.status = KVS_STATUS_INVALID_KEY
    /\ Linked # {}

\* C19 as stated: a store called with size 0 and null_terminated false
\* reports invalid-size and changes nothing.
C19_ZeroSizeInvalidSize ==
    [][((\E op \in Stores : Called(op))
        /\ result'.args[2] = 0
        /\ result'.args[3] = FALSE)
       => /\ result'.status = KVS_STATUS_INVALID_SIZE
          /\ TableUnchanged
      ]_vars

\* C19, amended: a store called with size 0 and null_terminated false
\* creates no entry and changes nothing; it reports invalid-size when its
\* key is not 0 and its payload is not NULL, invalid-key when the key is 0,
\* and invalid-data when the key is not 0 and the payload is NULL.
C19_ZeroSizeRejected ==
    [][((\E op \in Stores : Called(op))
        /\ result'.args[2] = 0
        /\ result'.args[3] = FALSE)
       => /\ result'.status =
                (IF result'.key = 0 THEN KVS_STATUS_INVALID_KEY
                 ELSE IF result'.args[1] = NULL THEN KVS_STATUS_INVALID_DATA
                 ELSE KVS_STATUS_INVALID_SIZE)
          /\ result'.freed = {}
          /\ TableUnchanged
      ]_vars

\* kvs_store_reference refused a payload of size 0 that is not
\* null-terminated
C19_Witness ==
    /\ result.op = "kvs_store_reference"
    /\ result.status = KVS_STATUS_INVALID_SIZE
    /\ result.args[1] # NULL
    /\ result.args[2] = 0
    /\ result.args[3] = FALSE
    /\ Linked # {}

\* C20: entry_count is the number of entries linked in the chains; among
\* the calls that return on a table in use it rises, by one, exactly in a
\* successful store and falls, by one, exactly in a kvs_remove_entry or
\* kvs_release_entry that deallocates an entry.
C20_EntryCount ==
    /\ [](entry_count = Cardinality(Linked))
    /\ [][pc' = "ready"
          => LET stored == /\ result'.op \in Stores
                           /\ result'.status = KVS_STATUS_SUCCESS
                 removed == /\ result'.op \in {"kvs_remove_entry",
                                               "kvs_release_entry"}
                            /\ result'.freed # {}
             IN  entry_count' =
                    IF stored THEN entry_count + 1
                    ELSE IF removed THEN entry_count - 1
                    ELSE entry_count
         ]_vars

\* kvs_remove_entry has deallocated one of two entries
C20_Witness ==
    /\ result.op = "kvs_remove_entry"
    /\ result.freed # {}
    /\ entry_count = 1
    /\ Cardinality(Linked) = 1

Getters ==
    {"kvs_size_for_key", "kvs_data_for_key_is_null_terminated",
     "kvs_reference_count_for_key"}

\* the calls that look an entry up with _kvs_find_entry
Lookups == Retrievals \cup Getters \cup {"kvs_release_entry"}

\* C21: when two or more keys share a bucket, a retrieval by copy of a live
\* entry stored by value that returns a buffer returns the octets stored for
\* its own key, with status success.
C21_CollidingKeysRetrievable ==
    [][((\E op \in CopyRetrievals : Called(op))
        /\ pc' = "ready"
        /\ result'.status # KVS_STATUS_ALLOCATION_FAILED)
       => \A e \in EntriesFor(result'.key) :
             (/\ ~entry[e].marked_for_removal
              /\ entry[e].value \in HeapAddrs
              /\ Len(Chain(BucketIndex(entry[e].key))) >= 2)
             => /\ result'.status = KVS_STATUS_SUCCESS
                /\ result'.data = mem[entry[e].value]
      ]_vars

\* C22: for an entry stored by reference with a size N > 0,
\* kvs_value_for_key, unless its allocation fails, succeeds and returns a
\* new buffer, distinct from the buffer of the caller, that holds the N
\* octets of the payload.
C22_CopyOfReferencedPayload ==
    [][(/\ result.op = "kvs_store_reference"
        /\ result.status = KVS_STATUS_SUCCESS
        /\ result.args[2] > 0
        /\ Called("kvs_value_for_key")
        /\ result'.key = result.key
        /\ pc' = "ready"
        /\ result'.status # KVS_STATUS_ALLOCATION_FAILED)
       => /\ result'.status = KVS_STATUS_SUCCESS
          /\ result'.ret \in HeapAddrs
          /\ result'.data =
                Prefix(CallerData[result.args[1]], result.args[2])
      ]_vars

\* C23: kvs_entry_exists for a key without entry returns false and changes
\* nothing, so that any number of such calls return false and leave
\* entry_count and the linked entries as they were.
C23_ExistsOnAbsentKey ==
    [][(Called("kvs_entry_exists") /\ EntriesFor(result'.key) = {})
       => /\ result'.ret = FALSE
          /\ held' = held
          /\ TableUnchanged
      ]_vars

\* kvs_entry_exists returned false for a key without entry whose bucket
\* holds the entry of another key
C23_Witness ==
    /\ result.op = "kvs_entry_exists"
    /\ result.ret = FALSE
    /\ result.status = KVS_STATUS_ENTRY_NOT_FOUND
    /\ result.key # 0
    /\ bucket[BucketIndex(result.key)] # NULL

C26_GettersSeePending ==
    [][(\E op \in Getters : Called(op))
       => \A e \in EntriesFor(result'.key) :
             entry[e].marked_for_removal
             => /\ result'.status = KVS_STATUS_SUCCESS
                /\ result'.op = "kvs_size_for_key"
                      => result'.ret = entry[e].size
                /\ result'.op = "kvs_data_for_key_is_null_terminated"
                      => result'.ret = entry[e].null_terminated
                /\ result'.op = "kvs_reference_count_for_key"
                      => result'.ret = entry[e].ref_count
      ]_vars

\* kvs_reference_count_for_key returned the count of an entry pending
\* removal
C26_Witness ==
    /\ result.op = "kvs_reference_count_for_key"
    /\ result.ret >= 2
    /\ \E e \in EntriesFor(result.key) :
          entry[e].marked_for_removal /\ entry[e].ref_count = result.ret

\* the octets of s up to and including the first zero
TerminatedSize(s) ==
    CHOOSE n \in 1..Len(s) : s[n] = 0 /\ \A m \in 1..(n - 1) : s[m] # 0

\* C27: a store called with size 0 and null_terminated true for a new key
\* and a payload that holds a zero octet succeeds, unless an allocation
\* fails, and records as size the number of octets up to and including the
\* first zero.
C27_NullTerminatedSize ==
    [][((\E op \in Stores : Called(op))
        /\ result'.key # 0
        /\ result'.args[1] # NULL
        /\ result'.args[2] = 0
        /\ result'.args[3] = TRUE
        /\ EntriesFor(result'.key) = {}
        /\ result'.status # KVS_STATUS_ALLOCATION_FAILED)
       => /\ result'.status = KVS_STATUS_SUCCESS
          /\ \A e \in EntryAddrs :
                (~Allocated(e) /\ Allocated(e)')
                => entry'[e].size =
                      TerminatedSize(CallerData[result'.args[1]])
      ]_vars

\* C28: a lookup that finds no entry for its key (in kvs_entry_exists,
\* kvs_get_entry, kvs_value_for_key, kvs_reference_for_key, the three
\* getters or kvs_release_entry) leaves the cache as it was.
C28_MissKeepsCache ==
    [][((\E op \in Lookups : Called(op)) /\ EntriesFor(result'.key) = {})
       => /\ result'.status = KVS_STATUS_ENTRY_NOT_FOUND
          /\ last_retrieved_entry' = last_retrieved_entry
      ]_vars

\* kvs_size_for_key found no entry for its key while the cache holds an
\* entry of the same bucket
C28_Witness ==
    /\ result.op = "kvs_size_for_key"
    /\ result.status = KVS_STATUS_ENTRY_NOT_FOUND
    /\ last_retrieved_entry # NULL
    /\ bucket[BucketIndex(result.key)] # NULL

\* C29: after kvs_entry_exists for a key with a linked entry, live or
\* pending removal, the cache refers to that entry, and no entry has
\* changed.
C29_ExistsCachesEntry ==
    [][Called("kvs_entry_exists")
       => \A e \in EntriesFor(result'.key) :
             /\ last_retrieved_entry' = e
             /\ entry' = entry
             /\ result'.ret = ~entry[e].marked_for_removal
      ]_vars

\* kvs_entry_exists was called for an entry pending removal, which is in
\* the cache
C29_Witness ==
    /\ result.op = "kvs_entry_exists"
    /\ result.status = KVS_STATUS_ENTRY_PENDING_REMOVAL
    /\ last_retrieved_entry \in EntriesFor(result.key)

C31_EntriesInTheirBucket ==
    /\ [](\A e \in EntryAddrs :
             (pc = "ready" /\ Allocated(e))
             => \A i \in 0..(bucket_count - 1) :
                   (e \in Range(Chain(i)))
                      <=> (i = entry[e].key % bucket_count))
    /\ [][bucket_count' = bucket_count]_vars

\* with two buckets, each holds an entry
C31_Witness ==
    /\ pc = "ready"
    /\ bucket_count = 2
    /\ bucket[0] # NULL
    /\ bucket[1] # NULL

\* the chain heads inside the block that kvs_new_table allocates,
\*     ALLOCATE(sizeof(kvs_table_s) + sizeof(kvs_entry) * (bucket_count - 1)),
\* where kvs_table_s ends in bucket[0], an array that takes no space
BucketsAllocated == bucket_count - 1

\* C32: the table has storage for all its chain heads: the indices
\* 0..bucket_count-1 that kvs_new_table initialises, and the index
\* key mod bucket_count of every key, lie inside the block allocated for the
\* table.
C32_BucketsWithinAllocation ==
    pc = "ready"
    => /\ \A i \in DOMAIN bucket : i < BucketsAllocated
       /\ \A key \in Keys : BucketIndex(key) < BucketsAllocated

\* C33: the copy of a payload of N octets, made by kvs_store_value and by a
\* retrieval by copy, reads and writes the offsets 0..N-1 only: no octet at
\* offset N or beyond of the buffer of N octets is written.
C33_CopyWithinBuffer ==
    [][/\ (Called("kvs_store_value")
           /\ result'.status = KVS_STATUS_SUCCESS)
          => \A e \in EntryAddrs :
                (~Allocated(e) /\ Allocated(e)')
                => CopyOffsets(entry'[e].size)
                      \subseteq 0..(entry'[e].size - 1)
       /\ ((\E op \in CopyRetrievals : Called(op))
           /\ result'.status = KVS_STATUS_SUCCESS)
          => \A e \in EntriesFor(result'.key) :
                CopyOffsets(entry[e].size) \subseteq 0..(entry[e].size - 1)
      ]_vars

\* sequence s without the element r
Without(s, r) == SelectSeq(s, LAMBDA x : x # r)

\* the fields of an entry other than its link
Fields(rec) == [rec EXCEPT !.next = NULL]

\* the entries linked from address e on in the entries ent
RECURSIVE ChainIn(_, _)
ChainIn(ent, e) ==
    IF e = NULL THEN <<>> ELSE <<e>> \o ChainIn(ent, ent[e].next)

\* a table whose first bucket holds the chain 1, 2, 3 of entries stored by
\* reference with the keys bucket_count, 2 * bucket_count, 3 * bucket_count
ThreeEntries(cache) ==
    [bucket |-> [i \in 0..(bucket_count - 1) |->
                    IF i = 0 THEN 1 ELSE NULL],
     entry |-> [e \in 1..3 |->
                   [NewEntry(e * bucket_count, 12, MaxLen, FALSE)
                       EXCEPT !.next = IF e < 3 THEN e + 1 ELSE NULL]],
     cache |-> cache,
     count |-> 3,
     mem |-> mem]

\* kvs_remove_entry applied to the head, the middle and the tail of a chain
\* of three entries, for every state of the cache, in a table with the
\* bucket_count of the state
C34_OnThreeEntries ==
    \A cache \in 0..3, p \in 1..3 :
        LET before == ThreeEntries(cache)
            r == RemoveEntry(before, p * bucket_count, None)
        IN  /\ r.freed = {12, p}
            /\ ChainIn(r.s.entry, r.s.bucket[0]) = Without(<<1, 2, 3>>, p)
            /\ \A i \in 1..(bucket_count - 1) : r.s.bucket[i] = NULL
            /\ \A e \in (1..3) \ {p} :
                  Fields(r.s.entry[e]) = Fields(before.entry[e])
            /\ r.s.cache = (IF cache = p THEN NULL ELSE cache)
            /\ r.s.count = 2

\* C34: the removal of an entry from the table, be it the head, a middle
\* element or the tail of its chain, leaves the other entries linked in the
\* same order with their value, size, reference count and flags, and leaves
\* the cache as it was unless it referred to the entry removed (the cache is
\* then empty; within kvs_release_entry the lookup has cached the entry).
\* Every removal of the model is checked, the chains having at most
\* MaxEntries entries, together with the removal at each position of a
\* chain of three.
C34_RemovalKeepsOthers ==
    [][\A r \in EntryAddrs :
          (/\ pc = "ready"
           /\ pc' = "ready"
           /\ Allocated(r)
           /\ ~Allocated(r)')
          => /\ C34_OnThreeEntries
             /\ \A i \in 0..(bucket_count - 1) :
                   Chain(i)' = Without(Chain(i), r)
             /\ \A e \in EntryAddrs \ {r} :
                   /\ Allocated(e) = Allocated(e)'
                   /\ Allocated(e)
                      => /\ Fields(entry'[e]) = Fields(entry[e])
                         /\ entry[e].value \in HeapAddrs
                            => mem'[entry[e].value] = mem[entry[e].value]
             /\ last_retrieved_entry' =
                   (IF \/ last_retrieved_entry = r
                       \/ result'.op = "kvs_release_entry"
                    THEN NULL ELSE last_retrieved_entry)
      ]_vars

\* kvs_remove_entry has removed one of two entries of a chain while the
\* cache held the other
C34_Witness ==
    /\ result.op = "kvs_remove_entry"
    /\ result.freed # {}
    /\ bucket_count = 1
    /\ last_retrieved_entry # NULL
    /\ Cardinality(Linked) = 1

\* C35 as stated: an entry pending removal stays pending until it is
\* deallocated: no call clears its mark or raises its reference count, and
\* a store for its key reports key-not-unique and creates no entry.
C35_PendingUntilFreedKeyNotUnique ==
    [][/\ \A e \in EntryAddrs :
             (pc = "ready" /\ Pending(e) /\ pc' = "ready" /\ Allocated(e)')
             => /\ entry'[e].marked_for_removal
                /\ entry'[e].key = entry[e].key
                /\ entry'[e].ref_count <= entry[e].ref_count
                /\ e \in Linked'
       /\ ((\E op \in Stores : Called(op))
           /\ \E e \in EntriesFor(result'.key) : entry[e].marked_for_removal)
          => /\ result'.status = KVS_STATUS_KEY_NOT_UNIQUE
             /\ TableUnchanged
      ]_vars

\* C35, amended: an entry pending removal stays pending until it is
\* deallocated: no call clears its mark or raises its reference count, and
\* a store for its key fails and creates no entry; the store reports
\* key-not-unique unless its payload is NULL (invalid-data) or its size is
\* zero (invalid-size, or for null-terminated data invalid-size or
\* key-not-unique).
C35_PendingUntilFreed ==
    [][/\ \A e \in EntryAddrs :
             (pc = "ready" /\ Pending(e) /\ pc' = "ready" /\ Allocated(e)')
             => /\ entry'[e].marked_for_removal
                /\ entry'[e].key = entry[e].key
                /\ entry'[e].ref_count <= entry[e].ref_count
                /\ e \in Linked'
       /\ ((\E op \in Stores : Called(op))
           /\ \E e \in EntriesFor(result'.key) : entry[e].marked_for_removal)
          => /\ result'.status \in
                   DuplicateStoreStatus(result'.args[1], result'.args[2],
                                        result'.args[3])
             /\ result'.status # KVS_STATUS_SUCCESS
             /\ result'.freed = {}
             /\ TableUnchanged
      ]_vars

\* kvs_reference_for_key was refused for the only entry of the table, which
\* is pending removal with two references out
C35_Witness ==
    /\ result.op = "kvs_reference_for_key"
    /\ result.status = KVS_STATUS_ENTRY_PENDING_REMOVAL
    /\ entry_count = 1
    /\ \E e \in EntriesFor(result.key) :
          entry[e].marked_for_removal /\ entry[e].ref_count = 3

\* the entry a traversal of the chain of the key's bucket finds, without the
\* cache (NULL if none)
FindByTraversal(key) ==
    IF bucket[BucketIndex(key)] = NULL THEN NULL
    ELSE LET this_entry == ChainWalk(entry, bucket[BucketIndex(key)], key)
         IN  IF entry[this_entry].key = key THEN this_entry ELSE NULL

\* C36: in every state of a table, _kvs_find_entry with its cache returns
\* for every key what a traversal of the chain of the key's bucket returns:
\* a cached entry with the key asked for is the entry linked with that key.
C36_CacheAgreesWithTraversal ==
    pc = "ready"
    => \A key \in Keys : kvs_find_entry(key).found = FindByTraversal(key)

\* a lookup has been answered for the entry in the cache, which is not the
\* head of its chain
C36_Witness ==
    /\ pc = "ready"
    /\ result.op \in Lookups
    /\ last_retrieved_entry \in EntriesFor(result.key)
    /\ bucket[BucketIndex(result.key)] # last_retrieved_entry

\* C37: in every state of a table every linked entry that is pending
\* removal has a reference count of at least 2.
C37_PendingHasReferences ==
    pc = "ready"
    => \A e \in Linked : entry[e].marked_for_removal
                            => entry[e].ref_count >= 2

\* a release has lowered the count of an entry pending removal to 2, and
\* the entry is still linked
C37_Witness ==
    /\ result.op = "kvs_release_entry"
    /\ \E e \in EntriesFor(result.key) :
          /\ entry[e].marked_for_removal
          /\ entry[e].ref_count = 2
          /\ held[e] = 1

\* the entries with the key of the last call, and what a lookup of that key
\* finds
EntriesOfResultKey == EntriesFor(result.key)

FoundForResultKey == kvs_find_entry(result.key).found

\* C38: once the entry of a key has been deallocated (by kvs_remove_entry
\* at once, or by the final kvs_release_entry), whether or not it was in
\* the cache, the key has no entry, and a store for it with a payload and a
\* size succeeds again, unless an allocation fails; a lookup of the key then
\* returns the new entry: not marked, with reference count 1 and the value
\* and size just stored.
C38_StoreAfterRemoval ==
    [][/\ (pc = "ready"
           /\ pc' = "ready"
           /\ result'.op \in {"kvs_remove_entry", "kvs_release_entry"}
           /\ result'.freed # {})
          => /\ EntriesOfResultKey' = {}
             /\ FoundForResultKey' = NULL
       /\ ((\E op \in Stores : Called(op))
           /\ result'.key # 0
           /\ result'.args[1] # NULL
           /\ result'.args[2] > 0
           /\ EntriesFor(result'.key) = {}
           /\ result'.status # KVS_STATUS_ALLOCATION_FAILED)
          => /\ result'.status = KVS_STATUS_SUCCESS
             /\ \E e \in EntryAddrs :
                   /\ ~Allocated(e)
                   /\ FoundForResultKey' = e
                   /\ entry'[e].key = result'.key
                   /\ entry'[e].ref_count = 1
                   /\ entry'[e].marked_for_removal = FALSE
                   /\ entry'[e].size = result'.args[2]
                   /\ entry'[e].null_terminated = result'.args[3]
                   /\ IF result'.op = "kvs_store_reference"
                      THEN entry'[e].value = result'.args[1]
                      ELSE /\ entry'[e].value \in HeapAddrs
                           /\ mem'[entry'[e].value] =
                                 Prefix(CallerData[result'.args[1]],
                                        result'.args[2])
      ]_vars

\* A store has placed its entry at the first entry address while the second
\* holds the entry of the other key.  The allocator hands out the lowest
\* free address, so the first address was in use when the second entry was
\* stored, by the only other key that can be stored: the key of the store
\* had an entry, which was deallocated, and has been stored again.
C38_Witness ==
    /\ result.op \in Stores
    /\ result.status = KVS_STATUS_SUCCESS
    /\ Allocated(1)
    /\ entry[1].key = result.key
    /\ Allocated(2)
    /\ 2 \in Linked

C40_ReferenceCountGrows ==
    [][((Called("kvs_get_entry_ref") \/ Called("kvs_reference_for_key"))
        /\ result'.status = KVS_STATUS_SUCCESS)
       => \A e \in EntriesFor(result'.key) :
             entry'[e].ref_count > entry[e].ref_count
      ]_vars

=============================================================================
